---- MODULE Spec2Model ----
(***************************************************************************)
(* Model of the networkManager binding in src/NetworkManager.go: the       *)
(* enumeration, state, activation and snapshot calls, and the signal       *)
(* subscription toggle held in networkManager.sigChan.                     *)
(*                                                                         *)
(* Object paths are small integers, channels are numbered in order of      *)
(* creation, and the answers of the daemon (replies, faults, wrap          *)
(* failures) are the inputs of each operation.                             *)
(***************************************************************************)
EXTENDS Integers, Sequences, FiniteSets, TLC

\* ---------------------------------------------------------------- bounds
MaxPath == 2          \* object paths are 1..MaxPath
MaxLen == 2           \* longest path list the daemon returns
MaxChans == 4         \* channels created by make() in one behaviour
MaxProbe == 1         \* undefined state codes tried next to a defined one
NumProcs == 3         \* concurrent callers of Subscribe

\* ------------------------------------------------------------- constants
NIL == 0              \* nil channel / nil object path
OK == "nil"           \* nil error

Errs == {"TransportError", "RemoteError", "DecodeError"}
Outcomes == {OK} \cup Errs
\* The error a failing wrap (DeviceFactory, NewActiveConnection) reports.
WrapErrs == {"TransportError"}

Paths == 1..MaxPath
Procs == 1..NumProcs

\* NmState codes published by the daemon; NmStateUnknown is the sentinel.
NmStateUnknown == 0
NmStates == {0, 10, 20, 30, 40, 50, 60, 70}

\* Values the State property read may deliver (a uint32): every defined
\* code, and undefined ones just above the lowest and the highest.
StateInputs == NmStates \cup { c + k : c \in {0, 70}, k \in 1..MaxProbe }

\* Path lists the daemon returns: distinct object paths, in its order.
PathLists ==
  UNION { { s \in [1..n -> Paths] : \A i, j \in 1..n : i # j => s[i] # s[j] }
          : n \in 0..MaxLen }

NilHandle == [kind |-> "nil", path |-> NIL]
NoBytes == [NetworkState |-> "", Devices |-> <<>>]

VARIABLES
  sigChan,     \* networkManager.sigChan: NIL or a channel
  signals,     \* channels registered with conn.Signal, in order
  matchRules,  \* number of namespace match rules added on the bus
  nextChan,    \* the channel the next make() returns
  closed,      \* channels that have been closed
  retired,     \* channels that were in sigChan when Unsubscribe ran
  ret,         \* what the last operation returned
  daemon,      \* what the transport answered during the last operation
  calls,       \* remote calls issued by the last operation, in order
  pc,          \* concurrent callers: position inside Subscribe
  res          \* concurrent callers: the stream Subscribe returned

vars == <<sigChan, signals, matchRules, nextChan, closed, retired,
          ret, daemon, calls, pc, res>>

subVars == <<sigChan, signals, matchRules, nextChan, closed, retired>>
procVars == <<pc, res>>

\* ---------------------------------------------------------- return values
NoRet ==
  [op |-> "none", err |-> OK, list |-> <<>>, isNil |-> TRUE,
   handle |-> NilHandle, state |-> NmStateUnknown, stream |-> NIL,
   hasBytes |-> FALSE, bytes |-> NoBytes]

NoDaemon ==
  [stateErr |-> OK, v |-> 0, callErr |-> OK, paths |-> <<>>, failAt |-> 0,
   wrapErr |-> OK, p1 |-> NIL, p2 |-> NIL, jsonOk |-> TRUE]

\* ------------------------------------------------- helpers outside src/
\* dbusBase.call with one out-parameter: stores the reply on success.
call(e, r) ==
  IF e = OK THEN [value |-> r, err |-> OK] ELSE [value |-> NIL, err |-> e]

\* dbusBase.call2: stores both reply values, in order, on success.
call2(e, r1, r2) ==
  IF e = OK THEN [value1 |-> r1, value2 |-> r2, err |-> OK]
            ELSE [value1 |-> NIL, value2 |-> NIL, err |-> e]

\* dbusBase.callError2: as call2, with the other fault decoding.
callError2(e, r1, r2) ==
  IF e = OK THEN [value1 |-> r1, value2 |-> r2, err |-> OK]
            ELSE [value1 |-> NIL, value2 |-> NIL, err |-> e]

\* dbusBase.getUint32Property
getUint32Property(e, v) ==
  IF e = OK THEN [value |-> v, err |-> OK]
            ELSE [value |-> 0, err |-> e]

\* dbusBase.getSliceObjectProperty
getSliceObjectProperty(e, paths) ==
  IF e = OK THEN [value |-> paths, err |-> OK] ELSE [value |-> <<>>, err |-> e]

\* DeviceFactory(path): a Device handle for the path, or the wrap's error.
DeviceFactory(path, e) ==
  IF e = OK THEN [h |-> [kind |-> "Device", path |-> path], err |-> OK]
            ELSE [h |-> NilHandle, err |-> e]

\* NewActiveConnection(path)
NewActiveConnection(path, e) ==
  IF e = OK THEN [h |-> [kind |-> "ActiveConnection", path |-> path], err |-> OK]
            ELSE [h |-> NilHandle, err |-> e]

\* NmState.String()
NmStateString(s) ==
  IF s \in NmStates THEN "NmState" \o ToString(s) ELSE "NmState(" \o ToString(s) \o ")"

\* The error of the i-th wrap of one enumeration: the failAt-th wrap fails.
WrapOutcome(i, failAt, wrapErr) == IF i = failAt THEN wrapErr ELSE OK

\* ------------------------------------------------------- pure results
\* GetDevicesLoop with the early return dropping only the error check's
\* "nil": the handles wrapped so far are returned with the error.
RECURSIVE GetDevicesLoopPartial(_, _, _, _, _)
GetDevicesLoopPartial(devicePaths, i, devices, failAt, wrapErr) ==
  IF i > Len(devicePaths)
  THEN [list |-> devices, isNil |-> FALSE, err |-> OK]
  ELSE LET r == DeviceFactory(devicePaths[i], WrapOutcome(i, failAt, wrapErr))
       IN IF r.err # OK
          THEN [list |-> devices, isNil |-> FALSE, err |-> r.err]
          ELSE GetDevicesLoopPartial(devicePaths, i + 1,
                                     [devices EXCEPT ![i] = r.h], failAt, wrapErr)

\* GetDevices, lines 86-93: devices[i] is filled in order; the first wrap
\* that fails ends the call with (nil, err).
RECURSIVE GetDevicesLoop(_, _, _, _, _)
GetDevicesLoop(devicePaths, i, devices, failAt, wrapErr) ==
  IF i > Len(devicePaths)
  THEN [list |-> devices, isNil |-> FALSE, err |-> OK]
  ELSE LET r == DeviceFactory(devicePaths[i], WrapOutcome(i, failAt, wrapErr))
       IN IF r.err # OK
          THEN [list |-> <<>>, isNil |-> TRUE, err |-> r.err]
          ELSE GetDevicesLoop(devicePaths, i + 1,
                              [devices EXCEPT ![i] = r.h], failAt, wrapErr)

\* GetDevices, lines 77-94
GetDevicesResult(callErr, paths, failAt, wrapErr) ==
  LET c == call(callErr, paths)
  IN IF c.err # OK
     THEN [list |-> <<>>, isNil |-> TRUE, err |-> c.err]
     ELSE GetDevicesLoop(c.value, 1,
                         [j \in 1..Len(c.value) |-> NilHandle], failAt, wrapErr)

\* GetActiveConnections, lines 111-118
RECURSIVE GetActiveConnectionsLoop(_, _, _, _, _)
GetActiveConnectionsLoop(acPaths, i, ac, failAt, wrapErr) ==
  IF i > Len(acPaths)
  THEN [list |-> ac, isNil |-> FALSE, err |-> OK]
  ELSE LET r == NewActiveConnection(acPaths[i], WrapOutcome(i, failAt, wrapErr))
       IN IF r.err # OK
          THEN [list |-> <<>>, isNil |-> TRUE, err |-> r.err]
          ELSE GetActiveConnectionsLoop(acPaths, i + 1,
                                        [ac EXCEPT ![i] = r.h], failAt, wrapErr)

\* GetActiveConnections, lines 104-119
GetActiveConnectionsResult(propErr, paths, failAt, wrapErr) ==
  LET c == getSliceObjectProperty(propErr, paths)
  IN IF c.err # OK
     THEN [list |-> <<>>, isNil |-> TRUE, err |-> c.err]
     ELSE GetActiveConnectionsLoop(c.value, 1,
                                   [j \in 1..Len(c.value) |-> NilHandle],
                                   failAt, wrapErr)

\* GetState, lines 96-102: the property value is converted, not looked up.
GetStateResult(propErr, v) ==
  LET r == getUint32Property(propErr, v)
  IN IF r.err # OK
     THEN [state |-> NmStateUnknown, err |-> r.err]
     ELSE [state |-> r.value, err |-> OK]

\* ActivateWirelessConnection, lines 121-124
ActivateWirelessConnectionResult(callErr, p) ==
  LET c == call(callErr, p)
  IN [handle |-> NilHandle, err |-> c.err]

\* AddAndActivateCall2Result wrapping the first returned path.
AddAndActivateCall2ResultFirstPath(callErr, r1, r2, wrapErr) ==
  LET c == call2(callErr, r1, r2)
      opath1 == c.value1
      opath2 == c.value2
  IN IF c.err # OK
     THEN [handle |-> NilHandle, err |-> c.err]
     ELSE LET w == NewActiveConnection(opath1, wrapErr)
          IN [handle |-> w.h, err |-> w.err]

\* AddAndActivateWirelessConnection, lines 126-140 (call2)
AddAndActivateCall2Result(callErr, r1, r2, wrapErr) ==
  LET c == call2(callErr, r1, r2)
      opath1 == c.value1
      opath2 == c.value2
  IN IF c.err # OK
     THEN [handle |-> NilHandle, err |-> c.err]
     ELSE LET w == NewActiveConnection(opath2, wrapErr)
          IN [handle |-> w.h, err |-> w.err]

\* AddAndActivateWirelessConnection, lines 142-156 (callError2)
AddAndActivateCallError2Result(callErr, r1, r2, wrapErr) ==
  LET c == callError2(callErr, r1, r2)
      opath1 == c.value1
      opath2 == c.value2
  IN IF c.err # OK
     THEN [handle |-> NilHandle, err |-> c.err]
     ELSE LET w == NewActiveConnection(opath2, wrapErr)
          IN [handle |-> w.h, err |-> w.err]

\* dbusBase.subscribeNamespace: one more match rule for the namespace.
subscribeNamespace(rules) == rules + 1

\* conn.Signal(ch): ch is appended to the registered channels.
Signal(regs, ch) == Append(regs, ch)

\* conn.RemoveSignal(ch): every registration of ch is dropped; ch stays open.
RemoveSignal(regs, ch) == SelectSeq(regs, LAMBDA c : c # ch)

\* --------------------------------------------------------------- Init
Init ==
  /\ sigChan = NIL
  /\ signals = <<>>
  /\ matchRules = 0
  /\ nextChan = 1
  /\ closed = {}
  /\ retired = {}
  /\ ret = NoRet
  /\ daemon = NoDaemon
  /\ calls = <<>>
  /\ pc = [p \in Procs |-> "idle"]
  /\ res = [p \in Procs |-> NIL]

\* Inputs of one enumeration: the list and which wrap (0: none) fails.
FailPoints(paths) == 0..Len(paths)

\* ------------------------------------------------------------ operations
GetDevices ==
  /\ \/ \E e \in Errs :
          /\ ret' = [NoRet EXCEPT !.op = "GetDevices",
                        !.err = GetDevicesResult(e, <<>>, 0, OK).err]
          /\ daemon' = [NoDaemon EXCEPT !.callErr = e]
     \/ \E paths \in PathLists : \E failAt \in FailPoints(paths) :
        \E wrapErr \in (IF failAt = 0 THEN {OK} ELSE WrapErrs) :
          LET r == GetDevicesResult(OK, paths, failAt, wrapErr)
          IN /\ ret' = [NoRet EXCEPT !.op = "GetDevices", !.err = r.err,
                           !.list = r.list, !.isNil = r.isNil]
             /\ daemon' = [NoDaemon EXCEPT !.paths = paths, !.failAt = failAt,
                              !.wrapErr = wrapErr]
  /\ calls' = <<"GetDevices">>
  /\ UNCHANGED <<subVars, procVars>>

GetState ==
  /\ \/ \E e \in Errs :
          LET r == GetStateResult(e, 0)
          IN /\ ret' = [NoRet EXCEPT !.op = "GetState", !.err = r.err,
                           !.state = r.state]
             /\ daemon' = [NoDaemon EXCEPT !.stateErr = e]
     \/ \E v \in StateInputs :
          LET r == GetStateResult(OK, v)
          IN /\ ret' = [NoRet EXCEPT !.op = "GetState", !.err = r.err,
                           !.state = r.state]
             /\ daemon' = [NoDaemon EXCEPT !.v = v]
  /\ calls' = <<"State">>
  /\ UNCHANGED <<subVars, procVars>>

GetActiveConnections ==
  /\ \/ \E e \in Errs :
          /\ ret' = [NoRet EXCEPT !.op = "GetActiveConnections",
                        !.err = GetActiveConnectionsResult(e, <<>>, 0, OK).err]
          /\ daemon' = [NoDaemon EXCEPT !.callErr = e]
     \/ \E paths \in PathLists : \E failAt \in FailPoints(paths) :
        \E wrapErr \in (IF failAt = 0 THEN {OK} ELSE WrapErrs) :
          LET r == GetActiveConnectionsResult(OK, paths, failAt, wrapErr)
          IN /\ ret' = [NoRet EXCEPT !.op = "GetActiveConnections",
                           !.err = r.err, !.list = r.list, !.isNil = r.isNil]
             /\ daemon' = [NoDaemon EXCEPT !.paths = paths, !.failAt = failAt,
                              !.wrapErr = wrapErr]
  /\ calls' = <<"ActiveConnections">>
  /\ UNCHANGED <<subVars, procVars>>

ActivateWirelessConnection ==
  /\ \/ \E e \in Errs :
          LET r == ActivateWirelessConnectionResult(e, NIL)
          IN /\ ret' = [NoRet EXCEPT !.op = "ActivateWirelessConnection",
                           !.err = r.err, !.handle = r.handle]
             /\ daemon' = [NoDaemon EXCEPT !.callErr = e]
     \/ \E p \in Paths :
          LET r == ActivateWirelessConnectionResult(OK, p)
          IN /\ ret' = [NoRet EXCEPT !.op = "ActivateWirelessConnection",
                           !.err = r.err, !.handle = r.handle]
             /\ daemon' = [NoDaemon EXCEPT !.p1 = p]
  /\ calls' = <<"ActivateConnection">>
  /\ UNCHANGED <<subVars, procVars>>

AddAndActivateWirelessConnection ==
  /\ \/ \E e \in Errs :
          LET r == AddAndActivateCall2Result(e, NIL, NIL, OK)
          IN /\ ret' = [NoRet EXCEPT !.op = "AddAndActivateWirelessConnection",
                           !.err = r.err, !.handle = r.handle]
             /\ daemon' = [NoDaemon EXCEPT !.callErr = e]
     \/ \E p1 \in Paths, p2 \in Paths, wrapErr \in {OK} \cup WrapErrs :
          LET r == AddAndActivateCall2Result(OK, p1, p2, wrapErr)
          IN /\ ret' = [NoRet EXCEPT !.op = "AddAndActivateWirelessConnection",
                           !.err = r.err, !.handle = r.handle]
             /\ daemon' = [NoDaemon EXCEPT !.p1 = p1, !.p2 = p2,
                              !.wrapErr = wrapErr]
  /\ calls' = <<"AddAndActivateConnection">>
  /\ UNCHANGED <<subVars, procVars>>

AddAndActivateWirelessConnectionError2 ==
  /\ \/ \E e \in Errs :
          LET r == AddAndActivateCallError2Result(e, NIL, NIL, OK)
          IN /\ ret' = [NoRet EXCEPT !.op = "AddAndActivateWirelessConnectionError2",
                           !.err = r.err, !.handle = r.handle]
             /\ daemon' = [NoDaemon EXCEPT !.callErr = e]
     \/ \E p1 \in Paths, p2 \in Paths, wrapErr \in {OK} \cup WrapErrs :
          LET r == AddAndActivateCallError2Result(OK, p1, p2, wrapErr)
          IN /\ ret' = [NoRet EXCEPT !.op = "AddAndActivateWirelessConnectionError2",
                           !.err = r.err, !.handle = r.handle]
             /\ daemon' = [NoDaemon EXCEPT !.p1 = p1, !.p2 = p2,
                              !.wrapErr = wrapErr]
  /\ calls' = <<"AddAndActivateConnection">>
  /\ UNCHANGED <<subVars, procVars>>

\* Subscribe without the test of line 159: it registers on every call.
SubscribeNoTest ==
  /\ nextChan <= MaxChans
  /\ matchRules' = subscribeNamespace(matchRules)
  /\ sigChan' = nextChan
  /\ nextChan' = nextChan + 1
  /\ signals' = Signal(signals, nextChan)
  /\ ret' = [NoRet EXCEPT !.op = "Subscribe", !.stream = nextChan]
  /\ calls' = <<"AddMatch">>
  /\ daemon' = NoDaemon
  /\ UNCHANGED <<closed, retired, procVars>>

\* Subscribe, lines 158-168, run by one caller without interruption.
Subscribe ==
  /\ \/ /\ sigChan # NIL
        /\ ret' = [NoRet EXCEPT !.op = "Subscribe", !.stream = sigChan]
        /\ calls' = <<>>
        /\ UNCHANGED subVars
     \/ /\ sigChan = NIL
        /\ nextChan <= MaxChans
        /\ matchRules' = subscribeNamespace(matchRules)
        /\ sigChan' = nextChan
        /\ nextChan' = nextChan + 1
        /\ signals' = Signal(signals, nextChan)
        /\ ret' = [NoRet EXCEPT !.op = "Subscribe", !.stream = nextChan]
        /\ calls' = <<"AddMatch">>
        /\ UNCHANGED <<closed, retired>>
  /\ daemon' = NoDaemon
  /\ UNCHANGED procVars

\* Unsubscribe without line 172: the handle is not reset.
UnsubscribeKeepsHandle ==
  /\ signals' = RemoveSignal(signals, sigChan)
  /\ sigChan' = sigChan
  /\ retired' = IF sigChan # NIL THEN retired \cup {sigChan} ELSE retired
  /\ ret' = [NoRet EXCEPT !.op = "Unsubscribe"]
  /\ daemon' = NoDaemon
  /\ calls' = <<>>
  /\ UNCHANGED <<matchRules, nextChan, closed, procVars>>

\* Unsubscribe, lines 170-173
Unsubscribe ==
  /\ signals' = RemoveSignal(signals, sigChan)
  /\ sigChan' = NIL
  /\ retired' = IF sigChan # NIL THEN retired \cup {sigChan} ELSE retired
  /\ ret' = [NoRet EXCEPT !.op = "Unsubscribe"]
  /\ daemon' = NoDaemon
  /\ calls' = <<>>
  /\ UNCHANGED <<matchRules, nextChan, closed, procVars>>

\* MarshalJSON without the check of line 177: a failed state read is
\* ignored and the device list is read and rendered.
MarshalJSONIgnoresStateError ==
  /\ \E se \in Outcomes, v \in StateInputs, paths \in PathLists :
       LET st == GetStateResult(se, v)
           dv == GetDevicesResult(OK, paths, 0, OK)
       IN /\ ret' = [NoRet EXCEPT !.op = "MarshalJSON", !.hasBytes = TRUE,
                        !.bytes = [NetworkState |-> NmStateString(st.state),
                                   Devices |-> dv.list]]
          /\ daemon' = [NoDaemon EXCEPT !.stateErr = se, !.v = v,
                           !.paths = paths]
          /\ calls' = <<"State", "GetDevices">>
  /\ UNCHANGED <<subVars, procVars>>

\* MarshalJSON, lines 175-189
MarshalJSON ==
  /\ \/ \E se \in Errs :
          LET st == GetStateResult(se, 0)
          IN /\ st.err # OK
             /\ ret' = [NoRet EXCEPT !.op = "MarshalJSON", !.err = st.err]
             /\ daemon' = [NoDaemon EXCEPT !.stateErr = se]
             /\ calls' = <<"State">>
     \/ \E v \in StateInputs, ce \in Errs :
          LET st == GetStateResult(OK, v)
              dv == GetDevicesResult(ce, <<>>, 0, OK)
          IN /\ st.err = OK
             /\ dv.err # OK
             /\ ret' = [NoRet EXCEPT !.op = "MarshalJSON", !.err = dv.err]
             /\ daemon' = [NoDaemon EXCEPT !.v = v, !.callErr = ce]
             /\ calls' = <<"State", "GetDevices">>
     \/ \E v \in StateInputs, paths \in PathLists :
        \E failAt \in FailPoints(paths) :
        \E wrapErr \in (IF failAt = 0 THEN {OK} ELSE WrapErrs) :
        \E jsonOk \in (IF failAt = 0 THEN BOOLEAN ELSE {TRUE}) :
          LET st == GetStateResult(OK, v)
              dv == GetDevicesResult(OK, paths, failAt, wrapErr)
          IN /\ st.err = OK
             /\ ret' = IF dv.err # OK
                       THEN [NoRet EXCEPT !.op = "MarshalJSON", !.err = dv.err]
                       ELSE IF ~jsonOk
                       THEN [NoRet EXCEPT !.op = "MarshalJSON",
                                !.err = "DecodeError"]
                       ELSE [NoRet EXCEPT !.op = "MarshalJSON",
                                !.hasBytes = TRUE,
                                !.bytes = [NetworkState |-> NmStateString(st.state),
                                           Devices |-> dv.list]]
             /\ daemon' = [NoDaemon EXCEPT !.v = v, !.paths = paths,
                              !.failAt = failAt, !.wrapErr = wrapErr,
                              !.jsonOk = jsonOk]
             /\ calls' = <<"State", "GetDevices">>
  /\ UNCHANGED <<subVars, procVars>>

\* ------------------------------------------- Subscribe, statement by statement
\* A caller enters Subscribe.
SubscribeEnter(p) ==
  /\ pc[p] = "idle"
  /\ pc' = [pc EXCEPT ![p] = "l159"]
  /\ UNCHANGED <<subVars, res, ret, daemon, calls>>

\* line 159-161: if n.sigChan != nil { return n.sigChan }
SubscribeTest(p) ==
  /\ pc[p] = "l159"
  /\ IF sigChan # NIL
     THEN /\ res' = [res EXCEPT ![p] = sigChan]
          /\ pc' = [pc EXCEPT ![p] = "done"]
     ELSE /\ pc' = [pc EXCEPT ![p] = "l163"]
          /\ UNCHANGED res
  /\ UNCHANGED <<subVars, ret, daemon, calls>>

\* line 163: n.subscribeNamespace(NetworkManagerObjectPath)
SubscribeAddMatch(p) ==
  /\ pc[p] = "l163"
  /\ matchRules' = subscribeNamespace(matchRules)
  /\ pc' = [pc EXCEPT ![p] = "l164"]
  /\ UNCHANGED <<sigChan, signals, nextChan, closed, retired, res, ret,
                 daemon, calls>>

\* line 164: n.sigChan = make(chan *dbus.Signal, 10)
SubscribeMake(p) ==
  /\ pc[p] = "l164"
  /\ nextChan <= MaxChans
  /\ sigChan' = nextChan
  /\ nextChan' = nextChan + 1
  /\ pc' = [pc EXCEPT ![p] = "l165"]
  /\ UNCHANGED <<signals, matchRules, closed, retired, res, ret, daemon, calls>>

\* line 165: n.conn.Signal(n.sigChan)
SubscribeSignal(p) ==
  /\ pc[p] = "l165"
  /\ signals' = Signal(signals, sigChan)
  /\ pc' = [pc EXCEPT ![p] = "l167"]
  /\ UNCHANGED <<sigChan, matchRules, nextChan, closed, retired, res, ret,
                 daemon, calls>>

\* line 167: return n.sigChan
SubscribeReturn(p) ==
  /\ pc[p] = "l167"
  /\ res' = [res EXCEPT ![p] = sigChan]
  /\ pc' = [pc EXCEPT ![p] = "done"]
  /\ UNCHANGED <<subVars, ret, daemon, calls>>

\* ------------------------------------------------------- specifications
\* The calls that only talk to the daemon: none reads or writes sigChan.
Next ==
  \/ GetDevices
  \/ GetState
  \/ GetActiveConnections
  \/ ActivateWirelessConnection
  \/ AddAndActivateWirelessConnection
  \/ AddAndActivateWirelessConnectionError2
  \/ MarshalJSON

Spec == Init /\ [][Next]_vars

\* The subscription toggle used by one caller at a time, with property
\* reads in between.
NextSub ==
  \/ Subscribe
  \/ Unsubscribe
  \/ GetState

SpecSub == Init /\ [][NextSub]_vars

\* Several callers inside Subscribe at once: nothing in lines 158-168
\* orders their statements.
NextConc ==
  \E p \in Procs :
    \/ SubscribeEnter(p)
    \/ SubscribeTest(p)
    \/ SubscribeAddMatch(p)
    \/ SubscribeMake(p)
    \/ SubscribeSignal(p)
    \/ SubscribeReturn(p)

SpecConc == Init /\ [][NextConc]_vars

\* ----------------------------------------------------------- properties
Range(s) == { s[i] : i \in 1..Len(s) }
Count(s, c) == Cardinality({ i \in 1..Len(s) : s[i] = c })
AddOps == {"AddAndActivateWirelessConnection",
           "AddAndActivateWirelessConnectionError2"}
ActiveConnectionAt(p) == [kind |-> "ActiveConnection", path |-> p]

\* C1: a Subscribe made while the manager is subscribed returns the stream
\* it already holds (the one the previous Subscribe returned) and adds no
\* match rule and no signal-channel registration.
C1_SubscribeIdempotent ==
  [][(sigChan # NIL /\ ret'.op = "Subscribe") =>
       /\ ret'.stream = sigChan
       /\ (ret.op = "Subscribe" => ret'.stream = ret.stream)
       /\ sigChan' = sigChan
       /\ signals' = signals
       /\ matchRules' = matchRules
       /\ calls' = <<>>]_vars

\* A second Subscribe has returned the held stream without a remote call.
C1_Witness ==
  /\ ret.op = "Subscribe"
  /\ sigChan # NIL
  /\ ret.stream = sigChan
  /\ calls = <<>>

\* C2: the Subscribe that follows an Unsubscribe returns a stream that was
\* never handed out before the Unsubscribe, that this call registers with
\* the transport, and that is open.
C2_FreshAfterUnsubscribe ==
  [][(/\ ret'.op = "Subscribe"
      /\ \/ ret.op = "Unsubscribe"
         \/ (sigChan = NIL /\ retired # {})) =>
       /\ ret'.stream # NIL
       /\ ret'.stream \notin retired'
       /\ ret'.stream \notin Range(signals)
       /\ Count(signals', ret'.stream) = 1
       /\ ret'.stream \notin closed'
       /\ sigChan' = ret'.stream]_vars

\* Subscribe, Unsubscribe, Subscribe: the second stream is a new one.
C2_Witness ==
  /\ ret.op = "Subscribe"
  /\ retired # {}
  /\ ret.stream \notin retired
  /\ ret.stream \in Range(signals)
  /\ calls = <<"AddMatch">>

\* C3: once Unsubscribe has returned, every stream it took out of service
\* is unregistered and closed.
C3_UnsubscribeCloses ==
  ret.op = "Unsubscribe" =>
    \A c \in retired : c \notin Range(signals) /\ c \in closed

\* C4: a successful activate call returns the handle of the returned path;
\* a failed one returns the remote error and no handle.
C4_ActivateReturnsHandle ==
  ret.op = "ActivateWirelessConnection" =>
    IF daemon.callErr = OK
    THEN ret.err = OK /\ ret.handle = ActiveConnectionAt(daemon.p1)
    ELSE ret.err = daemon.callErr /\ ret.handle = NilHandle

\* C5 as stated: every successful add-and-activate call returns the handle
\* of the second path, in both variants; a failed call returns no handle.
C5_SecondPathAlways ==
  ret.op \in AddOps =>
    IF daemon.callErr = OK
    THEN ret.handle = ActiveConnectionAt(daemon.p2)
    ELSE ret.handle = NilHandle

\* C5 amended: when the call succeeds and wrapping the second path succeeds,
\* both variants return the handle of the second path and no error; when
\* the wrap fails they return the wrap's error; a handle that is returned
\* never carries the first path unless both paths are equal; a failed call
\* returns the remote error and no handle.
C5_SecondPathWhenWrapped ==
  ret.op \in AddOps =>
    /\ (daemon.callErr = OK /\ daemon.wrapErr = OK) =>
          ret.err = OK /\ ret.handle = ActiveConnectionAt(daemon.p2)
    /\ (daemon.callErr = OK /\ daemon.wrapErr # OK) =>
          ret.err = daemon.wrapErr
    /\ (ret.handle # NilHandle /\ daemon.p1 # daemon.p2) =>
          ret.handle.path # daemon.p1
    /\ daemon.callErr # OK =>
          ret.err = daemon.callErr /\ ret.handle = NilHandle

\* A successful call with two different paths has returned the second.
C5_Witness ==
  /\ ret.op \in AddOps
  /\ daemon.callErr = OK
  /\ daemon.wrapErr = OK
  /\ daemon.p1 # daemon.p2
  /\ ret.handle.path = daemon.p2

\* C6: a successful state read returns the code itself when the daemon
\* defines it and NmStateUnknown otherwise, with no error.
C6_UnknownCodesDecodeToUnknown ==
  (ret.op = "GetState" /\ daemon.stateErr = OK) =>
    /\ ret.err = OK
    /\ ret.state = IF daemon.v \in NmStates THEN daemon.v ELSE NmStateUnknown

\* C7: GetDevices and GetActiveConnections return either an error with a
\* nil list (some wrap failed) or one handle per path in the daemon's order.
C7_NoPartialEnumeration ==
  (ret.op \in {"GetDevices", "GetActiveConnections"} /\ daemon.callErr = OK) =>
    IF daemon.failAt # 0
    THEN ret.err = daemon.wrapErr /\ ret.err # OK /\ ret.isNil /\ ret.list = <<>>
    ELSE /\ ret.err = OK
         /\ ~ret.isNil
         /\ Len(ret.list) = Len(daemon.paths)
         /\ \A i \in 1..Len(daemon.paths) :
              ret.list[i] =
                [kind |-> IF ret.op = "GetDevices" THEN "Device"
                                                   ELSE "ActiveConnection",
                 path |-> daemon.paths[i]]

\* The second of two wraps failed after the first had succeeded.
C7_Witness ==
  /\ ret.op = "GetDevices"
  /\ Len(daemon.paths) = 2
  /\ daemon.failAt = 2
  /\ ret.err # OK
  /\ ret.isNil

\* C8: MarshalJSON reads the state first and the device list second; a
\* failed state read is returned without the device-list read, a failed
\* device-list read is returned, and bytes come only from two good reads.
C8_MarshalPropagates ==
  ret.op = "MarshalJSON" =>
    /\ Len(calls) >= 1 /\ calls[1] = "State"
    /\ daemon.stateErr # OK =>
          ret.err = daemon.stateErr /\ ~ret.hasBytes /\ calls = <<"State">>
    /\ daemon.stateErr = OK => calls = <<"State", "GetDevices">>
    /\ (daemon.stateErr = OK /\ daemon.callErr # OK) =>
          ret.err = daemon.callErr /\ ~ret.hasBytes
    /\ (daemon.stateErr = OK /\ daemon.callErr = OK /\ daemon.failAt # 0) =>
          ret.err = daemon.wrapErr /\ ~ret.hasBytes
    /\ ret.hasBytes =>
          /\ ret.err = OK
          /\ daemon.stateErr = OK /\ daemon.callErr = OK /\ daemon.failAt = 0

\* The state read failed and nothing else was asked of the daemon.
C8_Witness ==
  /\ ret.op = "MarshalJSON"
  /\ daemon.stateErr # OK
  /\ ret.err = daemon.stateErr
  /\ calls = <<"State">>

\* C9: when concurrent Subscribe calls started from the unsubscribed state
\* have all returned, they returned one and the same stream, and one match
\* rule and one signal channel, the one in sigChan, are registered.
C9_ConcurrentSubscribeSafe ==
  (\A p \in Procs : pc[p] = "done") =>
    /\ \A p, q \in Procs : res[p] = res[q]
    /\ matchRules = 1
    /\ signals = <<sigChan>>

\* C10: the registrations on the transport follow the toggle: subscribed
\* means exactly the channel in sigChan and one match rule, unsubscribed
\* means none.
C10_RegistrationsMatchToggle ==
  IF sigChan # NIL
  THEN signals = <<sigChan>> /\ matchRules = 1
  ELSE signals = <<>> /\ matchRules = 0

====
